---- MODULE Spec2Model ----
(***************************************************************************)
(* A model of the kaspa wallet tracer (trace_kaspa_fullhistory.py):        *)
(* the paginated backward walk of fetch_transactions_all_participants,     *)
(* the proportional attribution of every transaction, and the filter and   *)
(* save steps of trace_wallet.                                             *)
(*                                                                         *)
(* Python dicts are functions with string keys; a field the API left out   *)
(* is a key outside the DOMAIN.  A float amount is the exact rational      *)
(* [num, den] that the float arithmetic approximates.  Time is counted in  *)
(* abstract units instead of milliseconds.                                 *)
(***************************************************************************)
EXTENDS Integers, Sequences, FiniteSets, TLC

VARIABLES
    pc,             \* where trace_wallet stands: "loop", "page", "returned", "done", "raised"
    before,         \* the pagination cursor of the fetch loop
    requests,       \* iterations of `for _ in range(max_pages)` started = requests issued
    data,           \* the page being iterated (resp.json() of the last request)
    idx,            \* position of `for tx in data` (1-based), Len(data)+1 when exhausted
    records,        \* the list `records` of the fetch loop
    exit,           \* how the fetch loop was left: "none" while it runs
    pages_done,     \* pages whose `for tx in data` ran to its end and whose cursor advance ran
    full_csv,       \* the file <address>_all_participants.csv
    involving_csv,  \* the file <address>_involving.csv
    served,         \* entries the API has handed out so far
    last_bt,        \* block time of the last record entry the loop has read
    descending,     \* the block times read so far are strictly decreasing
    history,        \* the transactions the API holds for the address, newest first
    fs,             \* the dataset file names present in the script directory and in DATA_DIR
    found,          \* what a plot script's find_*_csv last returned or raised
    report          \* the totals plot_wallet2_inflows_viz.py has printed, if it ran

vars == <<pc, before, requests, data, idx, records, exit, pages_done,
          full_csv, involving_csv, served, last_bt, descending,
          history, fs, found, report>>

----------------------------------------------------------------------------
(* Bounds of the model *)

\* inputs of one transaction, at most
MaxIn == 2
\* outputs of one transaction, at most
MaxOut == 2
\* largest amount (in sompi) of one input or output
MaxAmt == 1
\* entries of one page, at most (stands for limit=500 of the request)
MaxPageLen == 2
\* entries the API holds for the address
MaxHist == 3
\* the parameter max_pages of the fetch loop (default 100000)
max_pages == 3

(* Program constants *)

\* datetime(2022, 1, 1), in the model's time unit
CUTOFF_DATE == 2
\* 1e8 sompi are one KAS
SOMPI_PER_KAS == 100000000

\* ROOTS[0], the traced wallet, and another address
WALLET == "kaspa:wallet2"
PEER == "kaspa:peer"
Addr == {WALLET, PEER}

\* datetime.now() when the walk starts: later than every block time
Now == CUTOFF_DATE + 1
\* block times the API reports: one before the cutoff, one not before it
BlockTimes == {CUTOFF_DATE - 1, CUTOFF_DATE}

----------------------------------------------------------------------------
(* Python helpers *)

\* d.get(k, default)
Get(d, k, default) == IF k \in DOMAIN d THEN d[k] ELSE default

\* isinstance(tx, dict): an entry that is no dict is the record [py_type |-> ...]
IsDict(e) == "py_type" \notin DOMAIN e
NonDict == [py_type |-> "str"]

\* exact rationals standing for floats
RECURSIVE GCD(_, _)
GCD(a, b) == IF b = 0 THEN a ELSE GCD(b, a % b)
Rat(n, d) == [num |-> n, den |-> d]
\* a/b = c/d, without overflowing on the cross products
RatEq(p, q) ==
    LET g == GCD(p.den, q.den)
    IN p.num * (q.den \div g) = q.num * (p.den \div g)
\* a/b + c/d over the least common denominator
RatAdd(p, q) ==
    LET g == GCD(p.den, q.den)
    IN Rat(p.num * (q.den \div g) + q.num * (p.den \div g), (p.den \div g) * q.den)
RECURSIVE RatSum(_)
RatSum(s) == IF s = <<>> THEN Rat(0, 1) ELSE RatAdd(s[1], RatSum(Tail(s)))

RECURSIVE SumSeq(_)
SumSeq(s) == IF s = <<>> THEN 0 ELSE s[1] + SumSeq(Tail(s))

----------------------------------------------------------------------------
(* format_timestamp: the ISO-8601 string of the UTC instant, which carries *)
(* the offset "+00:00"                                                     *)
format_timestamp(ms) == [instant |-> ms, offset |-> "+00:00"]

\* the instant a timestamp names lies before CUTOFF_DATE
EarlierThanCutoff(ts) == ts.instant < CUTOFF_DATE

\* a string that is no ISO-8601 timestamp
Unparsable == [instant |-> 0, offset |-> "?"]

\* timestamp.replace("Z", "+00:00")
ReplaceZ(ts) == IF ts.offset = "Z" THEN [ts EXCEPT !.offset = "+00:00"] ELSE ts

\* datetime.fromisoformat: ValueError on a string that is no timestamp, an
\* offset-aware datetime when the string carries an offset, a naive one else
fromisoformat(ts) ==
    IF ts.offset \notin {"+00:00", ""}
    THEN [raised |-> "ValueError", instant |-> 0, aware |-> FALSE]
    ELSE [raised |-> "", instant |-> ts.instant, aware |-> (ts.offset = "+00:00")]

\* dt < CUTOFF_DATE with CUTOFF_DATE = datetime(2022, 1, 1), a naive datetime:
\* comparing an aware datetime with it raises TypeError
LessThanCutoff(dt) ==
    IF dt.aware
    THEN [raised |-> "TypeError", value |-> FALSE]
    ELSE [raised |-> "", value |-> (dt.instant < CUTOFF_DATE)]

\* is_before_cutoff: whatever the try block raises is caught, False returned
is_before_cutoff(timestamp) ==
    LET dt == fromisoformat(ReplaceZ(timestamp))
    IN IF dt.raised /= "" THEN FALSE
       ELSE IF LessThanCutoff(dt).raised /= "" THEN FALSE
       ELSE LessThanCutoff(dt).value


----------------------------------------------------------------------------
(* The attribution of one transaction (fetch_transactions_all_participants) *)

\* tx.get("transaction_id", tx.get("txId", "UNKNOWN"))
TxId(tx) == Get(tx, "transaction_id", Get(tx, "txId", "UNKNOWN"))

\* tx.get("inputs") or [], tx.get("outputs") or []
TxInputs(tx) == Get(tx, "inputs", <<>>)
TxOutputs(tx) == Get(tx, "outputs", <<>>)

\* format_timestamp(tx.get("block_time", 0))
TxTimestamp(tx) == format_timestamp(Get(tx, "block_time", 0))

\* a wrong default: an input without amount counts 1 sompi
InputAmount_default_one(inp) == Get(inp, "previous_outpoint_amount", 1)
\* int(inp.get("previous_outpoint_amount", 0)) and int(out.get("amount", 0))
InputAmount(inp) == Get(inp, "previous_outpoint_amount", 0)
OutputAmount(out) == Get(out, "amount", 0)
InputSender(inp) == Get(inp, "previous_outpoint_address", "UNKNOWN")
OutputRecipient(out) == Get(out, "script_public_key_address", "UNKNOWN")

\* a slip: input_summary[sender] = amount, the later input overwrites the earlier
AddInput_overwrite(summary, inp) ==
    LET sender == InputSender(inp)
        amount == InputAmount(inp)
    IN IF \E k \in 1..Len(summary) : summary[k].sender = sender
       THEN [k \in 1..Len(summary) |->
                IF summary[k].sender = sender
                THEN [sender |-> sender, contribution |-> amount]
                ELSE summary[k]]
       ELSE Append(summary, [sender |-> sender, contribution |-> amount])

\* a slip: a list of (sender, amount) pairs instead of a dict keyed by sender
AddInput_no_collapse(summary, inp) ==
    Append(summary, [sender |-> InputSender(inp), contribution |-> InputAmount(inp)])

\* input_summary[sender] = input_summary.get(sender, 0) + amount: the dict keeps
\* its keys in the order of their first insertion, so it is a sequence of pairs
AddInput(summary, inp) ==
    LET sender == InputSender(inp)
        amount == InputAmount(inp)
    IN IF \E k \in 1..Len(summary) : summary[k].sender = sender
       THEN [k \in 1..Len(summary) |->
                IF summary[k].sender = sender
                THEN [sender |-> sender, contribution |-> summary[k].contribution + amount]
                ELSE summary[k]]
       ELSE Append(summary, [sender |-> sender, contribution |-> amount])

\* the loop `for inp in inputs` over an empty input_summary
RECURSIVE InputSummary(_)
InputSummary(inputs) ==
    IF inputs = <<>> THEN <<>>
    ELSE AddInput(InputSummary(SubSeq(inputs, 1, Len(inputs) - 1)), inputs[Len(inputs)])

\* sum(input_summary.values())
TotalInput(summary) == SumSeq([k \in 1..Len(summary) |-> summary[k].contribution])

\* a slip: every sender is credited the whole output, as fetch_transactions does
Weight_whole(contribution, total_input_sompi) == Rat(1, 1)
\* weight = contribution / total_input_sompi
Weight(contribution, total_input_sompi) == Rat(contribution, total_input_sompi)

\* a slip: amount_sompi * contribution / 1e8, the division by the total forgotten
AmountKas_undivided(amount_sompi, weight) ==
    Rat(amount_sompi * weight.num, SOMPI_PER_KAS)
\* amount_sompi * weight / 1e8
AmountKas(amount_sompi, weight) ==
    Rat(amount_sompi * weight.num, weight.den * SOMPI_PER_KAS)

\* a slip: the sender loop stops one short
EdgesOfOutput_drop_last(tx_id, timestamp, summary, total, out) ==
    [k \in 1..(Len(summary) - 1) |->
        [tx_id |-> tx_id,
         timestamp |-> timestamp,
         sender |-> summary[k].sender,
         recipient |-> OutputRecipient(out),
         amount_kas |-> AmountKas(OutputAmount(out), Weight(summary[k].contribution, total))]]

\* the records appended for one output: one per sender of input_summary
EdgesOfOutput(tx_id, timestamp, summary, total, out) ==
    [k \in 1..Len(summary) |->
        [tx_id |-> tx_id,
         timestamp |-> timestamp,
         sender |-> summary[k].sender,
         recipient |-> OutputRecipient(out),
         amount_kas |-> AmountKas(OutputAmount(out), Weight(summary[k].contribution, total))]]

\* the loop `for out in outputs`
RECURSIVE EdgesOfOutputs(_, _, _, _, _)
EdgesOfOutputs(tx_id, timestamp, summary, total, outputs) ==
    IF outputs = <<>> THEN <<>>
    ELSE EdgesOfOutput(tx_id, timestamp, summary, total, outputs[1])
         \o EdgesOfOutputs(tx_id, timestamp, summary, total, Tail(outputs))

\* a slip: the guard tests `not inputs` instead of the total
Attribute_guard_on_inputs(tx) ==
    LET summary == InputSummary(TxInputs(tx))
        total == TotalInput(summary)
    IN IF TxInputs(tx) = <<>> THEN <<>>
       ELSE EdgesOfOutputs(TxId(tx), TxTimestamp(tx), summary, total, TxOutputs(tx))

\* the records one dict entry adds: none when its inputs total 0
Attribute(tx) ==
    LET summary == InputSummary(TxInputs(tx))
        total == TotalInput(summary)
    IN IF total = 0 THEN <<>>
       ELSE EdgesOfOutputs(TxId(tx), TxTimestamp(tx), summary, total, TxOutputs(tx))

\* one pass of the body of `for tx in data`
ProcessTx(recs, tx) == IF ~IsDict(tx) THEN recs ELSE recs \o Attribute(tx)

----------------------------------------------------------------------------
(* What the API can answer *)

\* sequences over S of length lo..hi
SeqsOf(S, lo, hi) == UNION {[1..n -> S] : n \in lo..hi}

\* an input: its address, and its amount or no amount field
InputDicts ==
    [previous_outpoint_address : Addr, previous_outpoint_amount : 0..MaxAmt]
    \cup [previous_outpoint_address : Addr]
\* an output: its address, and its amount or no amount field
OutputDicts ==
    [script_public_key_address : Addr, amount : 1..MaxAmt]
    \cup [script_public_key_address : Addr]

\* the transactions the attribution is examined on
TxDomain ==
    [transaction_id : {1}, block_time : {CUTOFF_DATE},
     inputs : SeqsOf(InputDicts, 0, MaxIn), outputs : SeqsOf(OutputDicts, 0, MaxOut)]

\* the entries the pages of a walk are made of: an entry that is no dict,
\* transactions of at most one input and of one output, and a transaction
\* without block_time
WalkInputs ==
    {<<>>}
    \cup {<<[previous_outpoint_address |-> a, previous_outpoint_amount |-> 1]>> : a \in Addr}
WalkOutputs == {<<[script_public_key_address |-> a, amount |-> 1]>> : a \in Addr}
WalkEntries ==
    {NonDict}
    \cup [block_time : BlockTimes, inputs : WalkInputs, outputs : WalkOutputs]
    \cup {[inputs |-> <<[previous_outpoint_address |-> PEER, previous_outpoint_amount |-> 1]>>,
            outputs |-> <<[script_public_key_address |-> WALLET, amount |-> 1]>>]}

\* the API gives the n-th entry it serves the transaction id n
Stamp(entry, n) == IF IsDict(entry) THEN ("transaction_id" :> n) @@ entry ELSE entry

Min(a, b) == IF a < b THEN a ELSE b

----------------------------------------------------------------------------
(* DataFrames and files *)

EDGE_COLUMNS == <<"tx_id", "timestamp", "sender", "recipient", "amount_kas">>

\* pd.DataFrame(records): the columns are the keys of the records, none without records
DataFrame(recs) ==
    [columns |-> IF recs = <<>> THEN <<>> ELSE EDGE_COLUMNS, rows |-> recs]

HasColumn(df, c) == \E k \in 1..Len(df.columns) : df.columns[k] = c

Involves(address, e) == e.sender = address \/ e.recipient = address

\* a slip: & for |, only the edges from the address to itself are kept
Projection_and(df, address) ==
    [columns |-> df.columns,
     rows |-> SelectSeq(df.rows, LAMBDA e : e.sender = address /\ e.recipient = address)]

\* txs[(txs["sender"] == address) | (txs["recipient"] == address)]
Projection(df, address) ==
    [columns |-> df.columns, rows |-> SelectSeq(df.rows, LAMBDA e : Involves(address, e))]

\* the try/except of trace_wallet: txs["sender"] raises KeyError on a frame
\* without that column, and txs_filtered stays txs
Filtered(df, address) ==
    IF HasColumn(df, "sender") /\ HasColumn(df, "recipient")
    THEN Projection(df, address)
    ELSE df

NoFile == [exists |-> FALSE, columns |-> <<>>, rows |-> <<>>]
\* df.to_csv(path, index=False)
ToCsv(df) == [exists |-> TRUE, columns |-> df.columns, rows |-> df.rows]

----------------------------------------------------------------------------
(* File names. Python strings the code searches in are sequences of pieces *)
(* cut so that the characters the code tests or replaces stand alone.      *)

\* an exchange's address, a third address datasets may exist for
EXCHANGE == "kaspa:exchange"

\* the address as text: "kaspa" ":" and the rest
Chars(address) ==
    CASE address = WALLET -> <<"kaspa", ":", "wallet2">>
      [] address = PEER -> <<"kaspa", ":", "peer">>
      [] address = EXCHANGE -> <<"kaspa", ":", "exchange">>

\* str.replace(old, new)
Replace(s, old, new) == [i \in 1..Len(s) |-> IF s[i] = old THEN new ELSE s[i]]

\* the `in` of two strings: sub occurs in s
Contains(sub, s) ==
    \E i \in 0..(Len(s) - Len(sub)) : SubSeq(s, i + 1, i + Len(sub)) = sub

ALL_PARTICIPANTS == <<"_", "all_participants", ".csv">>
INVOLVING == <<"_", "involving", ".csv">>

\* f"{address.replace(':', '_')}_all_participants.csv" and "..._involving.csv"
FileName(address, suffix) == Replace(Chars(address), ":", "_") \o suffix

\* no dataset file anywhere
EmptyDirs == [base |-> {}, fdir |-> {}]

\* os.path.join(DATA_DIR, name): DATA_DIR gains the two files of the address
Written(dirs, address) ==
    [dirs EXCEPT !.fdir = @ \cup {FileName(address, ALL_PARTICIPANTS),
                                  FileName(address, INVOLVING)}]

\* plot_wallet2_inflows_viz.py has not run
NotRun == [status |-> "", total_in |-> Rat(0, 1), total_out |-> Rat(0, 1),
           reconstructed_balance |-> Rat(0, 1)]

\* no find_*_csv has run
NotSearched == [dir |-> "", name |-> <<>>, suffix |-> <<>>, raised |-> ""]

----------------------------------------------------------------------------
(* trace_wallet(WALLET) *)

Init ==
    /\ pc = "loop"
    /\ before = Now
    /\ requests = 0
    /\ data = <<>>
    /\ idx = 1
    /\ records = <<>>
    /\ exit = "none"
    /\ pages_done = 0
    /\ full_csv = NoFile
    /\ involving_csv = NoFile
    /\ served = 0
    /\ last_bt = Now
    /\ descending = TRUE
    /\ history = <<>>
    /\ fs = EmptyDirs
    /\ found = NotSearched
    /\ report = NotRun

FailureKinds == {"network", "timeout", "http_status", "bad_json"}

\* a slip: the except branch gives up what was collected (records = [])
RequestFails_drops_records ==
    /\ pc = "loop"
    /\ requests < max_pages
    /\ requests' = requests + 1
    /\ exit' = "request_failed"
    /\ pc' = "returned"
    /\ records' = <<>>
    /\ UNCHANGED <<before, data, idx, pages_done, full_csv, involving_csv,
                   served, last_bt, descending>>
    /\ UNCHANGED <<history, fs, found>>
    /\ UNCHANGED report

\* requests.get, raise_for_status or resp.json() raises: except ... break
RequestFails ==
    /\ pc = "loop"
    /\ requests < max_pages
    /\ \E why \in FailureKinds :
        /\ requests' = requests + 1
        /\ exit' = "request_failed"
        /\ pc' = "returned"
    /\ UNCHANGED <<before, data, idx, records, pages_done, full_csv, involving_csv,
                   served, last_bt, descending>>
    /\ UNCHANGED <<history, fs, found>>
    /\ UNCHANGED report

\* the body is no list, or an empty list: break
NoMoreTransactions ==
    /\ pc = "loop"
    /\ requests < max_pages
    /\ \E body \in {"not_a_list", "empty_list"} :
        /\ requests' = requests + 1
        /\ exit' = "no_more"
        /\ pc' = "returned"
    /\ UNCHANGED <<before, data, idx, records, pages_done, full_csv, involving_csv,
                   served, last_bt, descending>>
    /\ UNCHANGED <<history, fs, found>>
    /\ UNCHANGED report

\* the body is a list of 1..MaxPageLen entries: `for tx in data` starts
PageArrives ==
    /\ pc = "loop"
    /\ requests < max_pages
    /\ \E n \in 1..Min(MaxPageLen, MaxHist - served) :
       \E page \in [1..n -> WalkEntries] :
        /\ data' = [k \in 1..n |-> Stamp(page[k], served + k)]
        /\ served' = served + n
    /\ requests' = requests + 1
    /\ idx' = 1
    /\ pc' = "page"
    /\ UNCHANGED <<before, records, exit, pages_done, full_csv, involving_csv,
                   last_bt, descending>>
    /\ UNCHANGED <<history, fs, found>>
    /\ UNCHANGED report

\* range(max_pages) is exhausted: the for loop ends
LoopExhausted ==
    /\ pc = "loop"
    /\ requests = max_pages
    /\ exit' = "max_pages"
    /\ pc' = "returned"
    /\ UNCHANGED <<before, requests, data, idx, records, pages_done, full_csv,
                   involving_csv, served, last_bt, descending>>
    /\ UNCHANGED <<history, fs, found>>
    /\ UNCHANGED report

\* one pass of `for tx in data`
ProcessEntry ==
    /\ pc = "page"
    /\ idx <= Len(data)
    /\ records' = ProcessTx(records, data[idx])
    /\ idx' = idx + 1
    /\ IF IsDict(data[idx])
       THEN /\ last_bt' = Get(data[idx], "block_time", 0)
            /\ descending' = (descending /\ Get(data[idx], "block_time", 0) < last_bt)
       ELSE UNCHANGED <<last_bt, descending>>
    /\ UNCHANGED <<pc, before, requests, data, exit, pages_done, full_csv,
                   involving_csv, served>>
    /\ UNCHANGED <<history, fs, found>>
    /\ UNCHANGED report

\* a slip: data[0] for data[-1], the cursor moves to the newest entry of the page
AdvanceCursor_first_entry ==
    /\ pc = "page"
    /\ idx > Len(data)
    /\ IF IsDict(data[1])
       THEN /\ before' = Get(data[1], "block_time", before)
            /\ pages_done' = pages_done + 1
            /\ pc' = "loop"
            /\ exit' = exit
       ELSE /\ exit' = "AttributeError"
            /\ pc' = "raised"
            /\ UNCHANGED <<before, pages_done>>
    /\ UNCHANGED <<requests, data, idx, records, full_csv, involving_csv,
                   served, last_bt, descending>>
    /\ UNCHANGED <<history, fs, found>>
    /\ UNCHANGED report

\* before = data[-1].get("block_time", before): an entry that is no dict has
\* no get, and the AttributeError leaves fetch and trace_wallet
AdvanceCursor ==
    /\ pc = "page"
    /\ idx > Len(data)
    /\ IF IsDict(data[Len(data)])
       THEN /\ before' = Get(data[Len(data)], "block_time", before)
            /\ pages_done' = pages_done + 1
            /\ pc' = "loop"
            /\ exit' = exit
       ELSE /\ exit' = "AttributeError"
            /\ pc' = "raised"
            /\ UNCHANGED <<before, pages_done>>
    /\ UNCHANGED <<requests, data, idx, records, full_csv, involving_csv,
                   served, last_bt, descending>>
    /\ UNCHANGED <<history, fs, found>>
    /\ UNCHANGED report

\* a slip: the filter without its try/except, the KeyError leaves trace_wallet
SaveDatasets_no_try ==
    /\ pc = "returned"
    /\ LET txs == DataFrame(records)
       IN IF HasColumn(txs, "sender")
          THEN /\ full_csv' = ToCsv(txs)
               /\ involving_csv' = ToCsv(Projection(txs, WALLET))
               /\ fs' = Written(fs, WALLET)
               /\ pc' = "done"
               /\ exit' = exit
          ELSE /\ pc' = "raised"
               /\ exit' = "KeyError"
               /\ UNCHANGED <<full_csv, involving_csv, fs>>
    /\ UNCHANGED <<before, requests, data, idx, records, pages_done,
                   served, last_bt, descending, history, found>>
    /\ UNCHANGED report

\* fetch returned pd.DataFrame(records): trace_wallet filters and saves
SaveDatasets ==
    /\ pc = "returned"
    /\ LET txs == DataFrame(records)
           txs_filtered == Filtered(txs, WALLET)
       IN /\ full_csv' = ToCsv(txs)
          /\ involving_csv' = ToCsv(txs_filtered)
    /\ fs' = Written(fs, WALLET)
    /\ pc' = "done"
    /\ UNCHANGED <<before, requests, data, idx, records, exit, pages_done,
                   served, last_bt, descending, history, found>>
    /\ UNCHANGED report

\* the shape of the state
TypeOK ==
    /\ pc \in {"loop", "page", "returned", "done", "raised"}
    /\ before \in BlockTimes \cup {Now}
    /\ requests \in 0..max_pages
    /\ idx \in 1..(Len(data) + 1)
    /\ Len(data) <= MaxPageLen
    /\ exit \in {"none", "request_failed", "no_more", "max_pages", "AttributeError",
                 "cutoff"}
    /\ pages_done \in 0..requests
    /\ served \in 0..MaxHist
    /\ last_bt \in BlockTimes \cup {0, Now}
    /\ descending \in BOOLEAN
    /\ full_csv.exists = (pc = "done")
    /\ involving_csv.exists = (pc = "done")
    /\ \A k \in 1..Len(records) : DOMAIN records[k] = {EDGE_COLUMNS[c] : c \in 1..5}
    /\ Len(history) <= MaxHist
    /\ DOMAIN fs = {"base", "fdir"}
    /\ FileName(WALLET, INVOLVING) \in fs.fdir <=> pc = "done"
    /\ found.raised \in {"", "FileNotFoundError"}
    /\ found.dir \in {"", "base", "fdir"}
    /\ report.status \in {"", "EmptyDataError", "no_inflows", "printed"}

Next ==
    \/ RequestFails
    \/ NoMoreTransactions
    \/ PageArrives
    \/ LoopExhausted
    \/ ProcessEntry
    \/ AdvanceCursor
    \/ SaveDatasets

Spec == Init /\ [][Next]_vars

----------------------------------------------------------------------------
(* The attribution examined on every transaction of TxDomain: the walk has *)
(* made its first request and got a page of that transaction followed by   *)
(* one more                                                                *)

FollowingTx ==
    [transaction_id |-> 2, block_time |-> CUTOFF_DATE - 1,
     inputs |-> <<[previous_outpoint_address |-> PEER, previous_outpoint_amount |-> 1]>>,
     outputs |-> <<[script_public_key_address |-> WALLET, amount |-> 1]>>]

InitAttr ==
    /\ pc = "page"
    /\ before = Now
    /\ requests = 1
    /\ data \in {<<tx, FollowingTx>> : tx \in TxDomain}
    /\ idx = 1
    /\ records = <<>>
    /\ exit = "none"
    /\ pages_done = 0
    /\ full_csv = NoFile
    /\ involving_csv = NoFile
    /\ served = 2
    /\ last_bt = Now
    /\ descending = TRUE
    /\ history = <<>>
    /\ fs = EmptyDirs
    /\ found = NotSearched
    /\ report = NotRun

NextAttr ==
    \/ ProcessEntry
    \/ AdvanceCursor

SpecAttr == InitAttr /\ [][NextAttr]_vars

----------------------------------------------------------------------------
(* fetch_transactions: the same request loop (lines 33-49) and the same    *)
(* cursor advance (line 83), a body that consults is_before_cutoff and     *)
(* gives each input the whole of each output                               *)

\* for inp in inputs: for out in outputs: records.append(...)
RECURSIVE EdgesOfInputs(_, _, _, _)
EdgesOfInputs(tx_id, timestamp, inputs, outputs) ==
    IF inputs = <<>> THEN <<>>
    ELSE [o \in 1..Len(outputs) |->
            [tx_id |-> tx_id,
             timestamp |-> timestamp,
             sender |-> InputSender(Head(inputs)),
             recipient |-> OutputRecipient(outputs[o]),
             amount_kas |-> Rat(OutputAmount(outputs[o]), SOMPI_PER_KAS)]]
         \o EdgesOfInputs(tx_id, timestamp, Tail(inputs), outputs)

\* one pass of `for tx in data` in fetch_transactions: a transaction judged
\* before the cutoff sets foundcutoff and breaks both loops
ProcessEntryFT ==
    /\ pc = "page"
    /\ idx <= Len(data)
    /\ LET tx == data[idx]
       IN IF ~IsDict(tx)
          THEN /\ idx' = idx + 1
               /\ UNCHANGED <<pc, exit, records>>
          ELSE IF is_before_cutoff(TxTimestamp(tx))
          THEN /\ exit' = "cutoff"
               /\ pc' = "returned"
               /\ UNCHANGED <<idx, records>>
          ELSE /\ records' = records \o EdgesOfInputs(TxId(tx), TxTimestamp(tx),
                                                      TxInputs(tx), TxOutputs(tx))
               /\ idx' = idx + 1
               /\ UNCHANGED <<pc, exit>>
    /\ UNCHANGED <<before, requests, data, pages_done, full_csv, involving_csv,
                   served, last_bt, descending>>
    /\ UNCHANGED <<history, fs, found>>
    /\ UNCHANGED report

NextFT ==
    \/ RequestFails
    \/ NoMoreTransactions
    \/ PageArrives
    \/ LoopExhausted
    \/ ProcessEntryFT
    \/ AdvanceCursor

SpecFT == Init /\ [][NextFT]_vars

\* the records fetch_transactions appends over the entries of one page, in
\* order, up to the first transaction judged before the cutoff
RECURSIVE RecordsFT(_)
RecordsFT(page) ==
    IF page = <<>> THEN <<>>
    ELSE LET tx == Head(page)
         IN IF ~IsDict(tx) THEN RecordsFT(Tail(page))
            ELSE IF is_before_cutoff(TxTimestamp(tx)) THEN <<>>
            ELSE EdgesOfInputs(TxId(tx), TxTimestamp(tx), TxInputs(tx), TxOutputs(tx))
                 \o RecordsFT(Tail(page))

----------------------------------------------------------------------------
(* fetch_transactions_all_participants against an API that answers from a *)
(* fixed history: the newest transactions strictly older than `before`,    *)
(* at most a page of them, every record carrying block_time                *)

\* a transaction of the history: one funded input, one paid output
HistoryEntries ==
    [block_time : BlockTimes, inputs : WalkInputs \ {<<>>}, outputs : WalkOutputs]

\* the block times of a history never increase from newest to oldest
NewestFirst(h) == \A i \in 1..(Len(h) - 1) : h[i].block_time >= h[i + 1].block_time

\* the histories of 1..MaxHist transactions, numbered from the newest
Histories ==
    {[k \in 1..Len(h) |-> Stamp(h[k], k)] :
        h \in {g \in SeqsOf(HistoryEntries, 1, MaxHist) : NewestFirst(g)}}

\* the records the API holds that are strictly older than the cursor
OlderThan(h, cursor) == SelectSeq(h, LAMBDA tx : tx.block_time < cursor)

InitApi ==
    /\ pc = "loop"
    /\ before = Now
    /\ requests = 0
    /\ data = <<>>
    /\ idx = 1
    /\ records = <<>>
    /\ exit = "none"
    /\ pages_done = 0
    /\ full_csv = NoFile
    /\ involving_csv = NoFile
    /\ served = 0
    /\ last_bt = Now
    /\ descending = TRUE
    /\ history \in Histories
    /\ fs = EmptyDirs
    /\ found = NotSearched
    /\ report = NotRun

\* the request with limit and before=... returns a non-empty page
ApiPage ==
    /\ pc = "loop"
    /\ requests < max_pages
    /\ OlderThan(history, before) /= <<>>
    /\ LET older == OlderThan(history, before)
           n == Min(MaxPageLen, Len(older))
       IN /\ data' = SubSeq(older, 1, n)
          /\ served' = served + n
    /\ requests' = requests + 1
    /\ idx' = 1
    /\ pc' = "page"
    /\ UNCHANGED <<before, records, exit, pages_done, full_csv, involving_csv,
                   last_bt, descending, history, fs, found>>
    /\ UNCHANGED report

\* nothing is older than the cursor: the API returns [], the loop breaks
ApiEmpty ==
    /\ pc = "loop"
    /\ requests < max_pages
    /\ OlderThan(history, before) = <<>>
    /\ requests' = requests + 1
    /\ exit' = "no_more"
    /\ pc' = "returned"
    /\ UNCHANGED <<before, data, idx, records, pages_done, full_csv, involving_csv,
                   served, last_bt, descending, history, fs, found>>
    /\ UNCHANGED report

NextApi ==
    \/ ApiPage
    \/ ApiEmpty
    \/ ProcessEntry
    \/ AdvanceCursor
    \/ SaveDatasets

SpecApi == InitApi /\ [][NextApi]_vars

----------------------------------------------------------------------------
(* The same API when its records may come without block_time: it still     *)
(* selects by the block time it knows, the field is missing in the answer  *)

\* the record as delivered, with or without its block_time
Delivered(tx, bare) ==
    IF bare THEN [k \in DOMAIN tx \ {"block_time"} |-> tx[k]] ELSE tx

\* the request returns a non-empty page, its records with block_time or
\* all of them without
ApiPageBare ==
    /\ pc = "loop"
    /\ requests < max_pages
    /\ OlderThan(history, before) /= <<>>
    /\ LET older == OlderThan(history, before)
           n == Min(MaxPageLen, Len(older))
       IN \E bare \in BOOLEAN :
            data' = [k \in 1..n |-> Delivered(older[k], bare)]
    /\ requests' = requests + 1
    /\ idx' = 1
    /\ pc' = "page"
    /\ UNCHANGED <<before, records, exit, pages_done, full_csv, involving_csv,
                   served, last_bt, descending, history, fs, found>>
    /\ UNCHANGED report

NextBare ==
    \/ ApiPageBare
    \/ ApiEmpty
    \/ LoopExhausted
    \/ ProcessEntry
    \/ AdvanceCursor
    \/ SaveDatasets

SpecBare == InitApi /\ [][NextBare]_vars

----------------------------------------------------------------------------
(* The plot scripts' find_involving_csv and find_participants_csv, run in  *)
(* a script directory whose flow_data_fullhistory is trace_wallet's        *)
(* DATA_DIR, after trace_wallet(WALLET) has saved its two files            *)

\* the files trace_wallet writes for other addresses
OtherFiles ==
    {FileName(a, sfx) : a \in {PEER, EXCHANGE}, sfx \in {ALL_PARTICIPANTS, INVOLVING}}

\* files somebody named with the address as it is written, colon included
ColonFiles == {Chars(WALLET) \o sfx : sfx \in {ALL_PARTICIPANTS, INVOLVING}}

\* Path.glob("*" + suffix): the names of the directory that end in suffix
Glob(dir, suffix) ==
    {n \in dir : /\ Len(n) >= Len(suffix)
                 /\ SubSeq(n, Len(n) - Len(suffix) + 1, Len(n)) = suffix}

\* glob yields the matches in an order the file system chooses
Orders(S) ==
    {o \in [1..Cardinality(S) -> S] : \A i, j \in 1..Cardinality(S) : i /= j => o[i] /= o[j]}

\* for p in listing: if WALLET in p.name: return p
WalletSpecific(listing) ==
    {i \in 1..Len(listing) : Contains(Chars(WALLET), listing[i])}

\* the body shared by find_involving_csv and find_participants_csv
find_csv(base_listing, fdir_listing, suffix) ==
    LET candidates == base_listing \o fdir_listing
        first(S) == CHOOSE i \in S : \A j \in S : i <= j
    IN IF WalletSpecific(base_listing) /= {}
       THEN [dir |-> "base", name |-> base_listing[first(WalletSpecific(base_listing))],
             suffix |-> suffix, raised |-> ""]
       ELSE IF WalletSpecific(fdir_listing) /= {}
       THEN [dir |-> "fdir", name |-> fdir_listing[first(WalletSpecific(fdir_listing))],
             suffix |-> suffix, raised |-> ""]
       ELSE IF candidates /= <<>>
       THEN [dir |-> IF base_listing /= <<>> THEN "base" ELSE "fdir",
             name |-> candidates[1], suffix |-> suffix, raised |-> ""]
       ELSE [dir |-> "", name |-> <<>>, suffix |-> suffix, raised |-> "FileNotFoundError"]

\* the walk has returned without records; datasets of other addresses lie
\* in the two directories
InitFind ==
    /\ pc = "returned"
    /\ before = Now
    /\ requests = 1
    /\ data = <<>>
    /\ idx = 1
    /\ records = <<>>
    /\ exit = "no_more"
    /\ pages_done = 0
    /\ full_csv = NoFile
    /\ involving_csv = NoFile
    /\ served = 0
    /\ last_bt = Now
    /\ descending = TRUE
    /\ history = <<>>
    /\ fs \in [base : SUBSET (OtherFiles \cup ColonFiles), fdir : SUBSET OtherFiles]
    /\ found = NotSearched
    /\ report = NotRun

find_involving_csv ==
    /\ pc = "done"
    /\ \E b \in Orders(Glob(fs.base, INVOLVING)) : \E f \in Orders(Glob(fs.fdir, INVOLVING)) :
        found' = find_csv(b, f, INVOLVING)
    /\ UNCHANGED <<pc, before, requests, data, idx, records, exit, pages_done,
                   full_csv, involving_csv, served, last_bt, descending, history, fs>>
    /\ UNCHANGED report

find_participants_csv ==
    /\ pc = "done"
    /\ \E b \in Orders(Glob(fs.base, ALL_PARTICIPANTS)) :
       \E f \in Orders(Glob(fs.fdir, ALL_PARTICIPANTS)) :
        found' = find_csv(b, f, ALL_PARTICIPANTS)
    /\ UNCHANGED <<pc, before, requests, data, idx, records, exit, pages_done,
                   full_csv, involving_csv, served, last_bt, descending, history, fs>>
    /\ UNCHANGED report

NextFind ==
    \/ SaveDatasets
    \/ find_involving_csv
    \/ find_participants_csv

SpecFind == InitFind /\ [][NextFind]_vars

----------------------------------------------------------------------------
(* plot_wallet2_inflows_viz.py, main: the totals it prints from the two    *)
(* files of the run, found as the only datasets in the directories         *)

RatSub(p, q) == RatAdd(p, Rat(0 - q.num, q.den))

\* df[...]["amount_kas"].sum()
AmountSum(rows) == RatSum([k \in 1..Len(rows) |-> rows[k].amount_kas])

\* a slip: the inflows without `& (df["sender"] != WALLET)`
Inflows_with_self(df) == SelectSeq(df, LAMBDA e : e.recipient = WALLET)

\* df[(df["recipient"] == WALLET) & (df["sender"] != WALLET)]
Inflows(df) == SelectSeq(df, LAMBDA e : e.recipient = WALLET /\ e.sender /= WALLET)

\* df[(df["sender"] == WALLET) & (df["recipient"] != WALLET)]
OutflowsToOthers(df) == SelectSeq(df, LAMBDA e : e.sender = WALLET /\ e.recipient /= WALLET)

\* the keys of parts_df.groupby("tx_id"), in groupby's ascending order
RECURSIVE GroupKeys(_)
GroupKeys(ids) ==
    IF ids = {} THEN <<>>
    ELSE LET least == CHOOSE i \in ids : \A j \in ids : i <= j
         IN <<least>> \o GroupKeys(ids \ {least})

\* sort_values("timestamp"): the row put in its place among sorted rows
RECURSIVE InsertByTimestamp(_, _)
InsertByTimestamp(row, sorted) ==
    IF sorted = <<>> THEN <<row>>
    ELSE IF row.timestamp.instant < sorted[1].timestamp.instant
    THEN <<row>> \o sorted
    ELSE <<sorted[1]>> \o InsertByTimestamp(row, Tail(sorted))

RECURSIVE SortByTimestamp(_)
SortByTimestamp(rows) ==
    IF rows = <<>> THEN <<>>
    ELSE InsertByTimestamp(rows[Len(rows)], SortByTimestamp(SubSeq(rows, 1, Len(rows) - 1)))

\* tx_deltas: per transaction, inflow to WALLET minus outflow from WALLET
tx_deltas(parts_df) ==
    LET keys == GroupKeys({parts_df[k].tx_id : k \in 1..Len(parts_df)})
        g(tx) == SelectSeq(parts_df, LAMBDA e : e.tx_id = tx)
        inflow(tx) == AmountSum(SelectSeq(g(tx), LAMBDA e : e.recipient = WALLET))
        outflow(tx) == AmountSum(SelectSeq(g(tx), LAMBDA e : e.sender = WALLET))
    IN SortByTimestamp([k \in 1..Len(keys) |->
            [tx_id |-> keys[k],
             timestamp |-> g(keys[k])[1].timestamp,
             delta_kas |-> RatSub(inflow(keys[k]), outflow(keys[k]))]])

\* main up to its consistency print: read_csv of a file without columns
\* raises EmptyDataError, no inflow from others ends the script early
inflows_main ==
    /\ pc = "done"
    /\ fs = Written(EmptyDirs, WALLET)
    /\ report = NotRun
    /\ report' =
        IF involving_csv.columns = <<>>
        THEN [NotRun EXCEPT !.status = "EmptyDataError"]
        ELSE LET df == involving_csv.rows
                 inflows == Inflows(df)
                 outflows_to_others == OutflowsToOthers(df)
             IN IF inflows = <<>>
                THEN [NotRun EXCEPT !.status = "no_inflows"]
                ELSE LET deltas == tx_deltas(full_csv.rows)
                     IN [status |-> "printed",
                         total_in |-> AmountSum(inflows),
                         total_out |-> AmountSum(outflows_to_others),
                         reconstructed_balance |->
                            RatSum([k \in 1..Len(deltas) |-> deltas[k].delta_kas])]
    /\ UNCHANGED <<pc, before, requests, data, idx, records, exit, pages_done,
                   full_csv, involving_csv, served, last_bt, descending,
                   history, fs, found>>

\* trace_wallet from its first page to the saved files, then the script
NextPlot ==
    \/ ProcessEntry
    \/ AdvanceCursor
    \/ NoMoreTransactions
    \/ SaveDatasets
    \/ inflows_main

SpecPlot == InitAttr /\ [][NextPlot]_vars


----------------------------------------------------------------------------
(* What the claims speak of, stated on the raw transaction and on the      *)
(* records, without the operators of the attribution                       *)

\* the amount of an input or output as the API gave it, 0 when it gave none
RawInputAmount(inp) ==
    IF "previous_outpoint_amount" \in DOMAIN inp THEN inp.previous_outpoint_amount ELSE 0
RawOutputAmount(out) == IF "amount" \in DOMAIN out THEN out.amount ELSE 0

\* the sum of the amounts of all inputs, and of all outputs, of a transaction
RawInputTotal(tx) ==
    SumSeq([k \in 1..Len(tx.inputs) |-> RawInputAmount(tx.inputs[k])])
RawOutputTotal(tx) ==
    SumSeq([k \in 1..Len(tx.outputs) |-> RawOutputAmount(tx.outputs[k])])

\* the distinct source addresses among the inputs
SourceAddresses(tx) == {tx.inputs[k].previous_outpoint_address : k \in 1..Len(tx.inputs)}

\* the records that carry a transaction id, in their order
EdgesOfTxId(recs, id) == SelectSeq(recs, LAMBDA e : e.tx_id = id)
AmountsOf(edges) == [k \in 1..Len(edges) |-> edges[k].amount_kas]

\* n sompi in KAS
Kas(n) == Rat(n, SOMPI_PER_KAS)

\* the entries of the page the loop has already passed
Passed(k) == pc \in {"page", "loop"} /\ k \in 1..Len(data) /\ k < idx

\* the loop is about to run its body on a dict entry
AtDictEntry == pc = "page" /\ idx <= Len(data) /\ IsDict(data[idx])

----------------------------------------------------------------------------
\* C1: for every transaction record whose inputs total a nonzero amount, the
\* amount_kas of the edges emitted for it sum to the sum of its output
\* amounts divided by 1e8 (exact arithmetic).
Thm_C1_EdgeSumIsOutputSum ==
    \A k \in 1..Len(data) :
        (Passed(k) /\ IsDict(data[k]) /\ RawInputTotal(data[k]) /= 0)
        => RatEq(RatSum(AmountsOf(EdgesOfTxId(records, data[k].transaction_id))),
                 Kas(RawOutputTotal(data[k])))

\* two senders and two outputs, attributed
Wit_C1 ==
    /\ Passed(1)
    /\ Cardinality(SourceAddresses(data[1])) = 2
    /\ Len(data[1].outputs) = 2
    /\ RawOutputTotal(data[1]) >= 2
    /\ Len(EdgesOfTxId(records, 1)) = 4
    /\ \E e \in 1..4 : EdgesOfTxId(records, 1)[e].amount_kas.num /= 0


----------------------------------------------------------------------------
\* the transaction with every amount the API left out written as 0
WithZeroAmounts(tx) ==
    [tx EXCEPT
        !.inputs = [k \in 1..Len(tx.inputs) |->
            [previous_outpoint_address |-> tx.inputs[k].previous_outpoint_address,
             previous_outpoint_amount |-> RawInputAmount(tx.inputs[k])]],
        !.outputs = [k \in 1..Len(tx.outputs) |->
            [script_public_key_address |-> tx.outputs[k].script_public_key_address,
             amount |-> RawOutputAmount(tx.outputs[k])]]]

LacksAnAmount(tx) ==
    \/ \E k \in 1..Len(tx.inputs) : "previous_outpoint_amount" \notin DOMAIN tx.inputs[k]
    \/ \E k \in 1..Len(tx.outputs) : "amount" \notin DOMAIN tx.outputs[k]

\* C6: an input without previous_outpoint_amount, or an output without amount,
\* is treated as amount 0: the loop body appends what it appends for the same
\* transaction with those amounts written as 0, and raises nothing.
Thm_C6_MissingAmountIsZero ==
    [][(AtDictEntry /\ LacksAnAmount(data[idx]))
        => /\ records' = records \o Attribute(WithZeroAmounts(data[idx]))
           /\ pc' = "page"
           /\ exit' = "none"]_vars

\* a transaction with an input without amount beside a funded one, and an
\* output without amount beside a paid one, has been attributed: the edges of
\* the sender without amount, and those of the output without amount, are 0
Wit_C6 ==
    /\ Passed(1)
    /\ Len(data[1].inputs) = 2 /\ Len(data[1].outputs) = 2
    /\ "previous_outpoint_amount" \notin DOMAIN data[1].inputs[1]
    /\ RawInputAmount(data[1].inputs[2]) = 1
    /\ data[1].inputs[1].previous_outpoint_address /= data[1].inputs[2].previous_outpoint_address
    /\ "amount" \notin DOMAIN data[1].outputs[1]
    /\ RawOutputAmount(data[1].outputs[2]) = 1
    /\ LET edges == EdgesOfTxId(records, 1)
       IN /\ Len(edges) = 4
          /\ edges[1].amount_kas.num = 0 /\ edges[2].amount_kas.num = 0
          /\ edges[3].amount_kas.num = 0 /\ edges[4].amount_kas.num = 1

----------------------------------------------------------------------------
\* C7: a transaction whose inputs total 0 (no inputs, or every input amount
\* zero or absent) emits no edge and is no error: the loop goes on to the
\* next entry of the same page, which is attributed as usual.
Thm_C7_ZeroTotalSkipped ==
    /\ [][(AtDictEntry /\ RawInputTotal(data[idx]) = 0)
            => /\ records' = records
               /\ idx' = idx + 1
               /\ data' = data
               /\ pc' = "page"
               /\ exit' = "none"]_vars
    /\ [](\A k \in 1..Len(data) :
            (Passed(k) /\ IsDict(data[k]) /\ RawInputTotal(data[k]) = 0)
            => /\ EdgesOfTxId(records, data[k].transaction_id) = <<>>
               /\ \A j \in (k + 1)..Len(data) :
                    (Passed(j) /\ IsDict(data[j]) /\ RawInputTotal(data[j]) /= 0
                        /\ data[j].outputs /= <<>>)
                    => EdgesOfTxId(records, data[j].transaction_id) /= <<>>)

\* a transaction with inputs that total 0 and with outputs was passed, and
\* the entry after it was attributed
Wit_C7 ==
    /\ Passed(2)
    /\ data[1].inputs /= <<>> /\ data[1].outputs /= <<>>
    /\ RawInputTotal(data[1]) = 0
    /\ \E k \in 1..Len(data[1].inputs) : "previous_outpoint_amount" \in DOMAIN data[1].inputs[k]
    /\ \E k \in 1..Len(data[1].inputs) : "previous_outpoint_amount" \notin DOMAIN data[1].inputs[k]
    /\ EdgesOfTxId(records, 1) = <<>>
    /\ Len(records) = 1 /\ records[1].tx_id = 2

----------------------------------------------------------------------------
\* a transaction of one input address (one or more inputs, all of it) and two outputs
OneSourceTwoOutputs(tx) ==
    Cardinality(SourceAddresses(tx)) = 1 /\ Len(tx.outputs) = 2

\* exactly two edges, both from the input address, of amounts A/1e8 and B/1e8
TwoEdgesOfAmountsAB(tx, edges) ==
    /\ Len(edges) = 2
    /\ \A e \in 1..2 :
        /\ edges[e].sender \in SourceAddresses(tx)
        /\ RatEq(edges[e].amount_kas, Kas(RawOutputAmount(tx.outputs[e])))

\* C8 as claimed: for a transaction with a single input address and two
\* outputs of amounts A and B, exactly two edges are emitted, both with the
\* input address as sender, with amounts A/1e8 and B/1e8.
CE_C8_AnyInputAmount ==
    \A k \in 1..Len(data) :
        (Passed(k) /\ IsDict(data[k]) /\ OneSourceTwoOutputs(data[k]))
        => TwoEdgesOfAmountsAB(data[k], EdgesOfTxId(records, data[k].transaction_id))

\* C8 amended: the same, for a transaction whose inputs total a nonzero amount.
Thm_C8_OneSourceTwoOutputs ==
    \A k \in 1..Len(data) :
        (Passed(k) /\ IsDict(data[k]) /\ OneSourceTwoOutputs(data[k])
            /\ RawInputTotal(data[k]) /= 0)
        => TwoEdgesOfAmountsAB(data[k], EdgesOfTxId(records, data[k].transaction_id))

\* two inputs of one address, the second without amount, and two outputs of
\* different amounts: two edges
Wit_C8 ==
    /\ Passed(1)
    /\ OneSourceTwoOutputs(data[1])
    /\ Len(data[1].inputs) = 2
    /\ RawInputAmount(data[1].inputs[1]) = 1
    /\ RawInputAmount(data[1].inputs[2]) = 0
    /\ RawOutputAmount(data[1].outputs[1]) /= RawOutputAmount(data[1].outputs[2])
    /\ Len(EdgesOfTxId(records, 1)) = 2

----------------------------------------------------------------------------
\* a transaction of two inputs of equal value from two addresses and one output
TwoEqualSourcesOneOutput(tx) ==
    /\ Len(tx.inputs) = 2
    /\ tx.inputs[1].previous_outpoint_address /= tx.inputs[2].previous_outpoint_address
    /\ RawInputAmount(tx.inputs[1]) = RawInputAmount(tx.inputs[2])
    /\ Len(tx.outputs) = 1

\* exactly two edges, one per input address, each of amount A/2e8
TwoEdgesOfHalfA(tx, edges) ==
    /\ Len(edges) = 2
    /\ {edges[1].sender, edges[2].sender} = SourceAddresses(tx)
    /\ \A e \in 1..2 :
        RatEq(edges[e].amount_kas, Rat(RawOutputAmount(tx.outputs[1]), 2 * SOMPI_PER_KAS))

\* C9 as claimed: for a transaction with two equal-value inputs from two
\* distinct addresses and one output of amount A, exactly two edges are
\* emitted, one per input address, each with amount A/2e8.
CE_C9_AnyEqualValue ==
    \A k \in 1..Len(data) :
        (Passed(k) /\ IsDict(data[k]) /\ TwoEqualSourcesOneOutput(data[k]))
        => TwoEdgesOfHalfA(data[k], EdgesOfTxId(records, data[k].transaction_id))

\* C9 amended: the same, for two inputs of equal nonzero value.
Thm_C9_TwoEqualSources ==
    \A k \in 1..Len(data) :
        (Passed(k) /\ IsDict(data[k]) /\ TwoEqualSourcesOneOutput(data[k])
            /\ RawInputAmount(data[k].inputs[1]) /= 0)
        => TwoEdgesOfHalfA(data[k], EdgesOfTxId(records, data[k].transaction_id))

\* two inputs of 1 sompi from two addresses and one output of 1 sompi: two edges
Wit_C9 ==
    /\ Passed(1)
    /\ TwoEqualSourcesOneOutput(data[1])
    /\ RawInputAmount(data[1].inputs[1]) = 1
    /\ RawOutputAmount(data[1].outputs[1]) = 1
    /\ Len(EdgesOfTxId(records, 1)) = 2
    /\ EdgesOfTxId(records, 1)[1].sender /= EdgesOfTxId(records, 1)[2].sender


----------------------------------------------------------------------------
(* Claims on the whole run of trace_wallet *)

Rows(file) == {file.rows[k] : k \in 1..Len(file.rows)}

\* C2 as claimed: when trace_wallet runs on pages whose block times decrease
\* and cross the cutoff, the walk stops at the first transaction before the
\* cutoff without emitting an edge for it: the two persisted datasets hold no
\* edge whose timestamp is earlier than CUTOFF_DATE.  (Taken on the runs that
\* end at an empty page, every edge timed by a block_time the API gave.)
CE_C2_NoEdgeBeforeCutoff ==
    (/\ pc = "done"
     /\ exit = "no_more"
     /\ descending
     /\ \A e \in Rows(full_csv) : e.timestamp.instant \in BlockTimes
     /\ \E e \in Rows(full_csv) : ~EarlierThanCutoff(e.timestamp))
    => \A e \in Rows(full_csv) \cup Rows(involving_csv) : ~EarlierThanCutoff(e.timestamp)

----------------------------------------------------------------------------
\* C3 as claimed: a walk fed non-empty lists stops only at the first response
\* that is an empty list or no list (the k-th), having processed exactly the
\* k-1 pages before it, and returns without raising.
CE_C3_StopsAtFirstEmptyPage ==
    (pc \in {"returned", "done", "raised"} /\ exit \notin {"request_failed", "max_pages"})
    => (exit = "no_more" /\ pages_done = requests - 1)

----------------------------------------------------------------------------
\* the edges among rows that have x as sender or as recipient, in their order
RECURSIVE EdgesInvolving(_, _)
EdgesInvolving(rows, x) ==
    IF rows = <<>> THEN <<>>
    ELSE (IF rows[1].sender = x \/ rows[1].recipient = x THEN <<rows[1]>> ELSE <<>>)
         \o EdgesInvolving(Tail(rows), x)

\* C4: when a page request fails, the loop makes no retry and no further
\* request, the edges of the earlier pages are kept unchanged, and
\* trace_wallet writes both files from them: the full file holds them all,
\* the filtered file those that involve the wallet.
Thm_C4_FailureKeepsPartialResult ==
    /\ [][(exit = "none" /\ exit' = "request_failed")
            => (records' = records /\ requests' = requests + 1 /\ pc' = "returned")]_vars
    /\ [][exit = "request_failed"
            => (requests' = requests /\ records' = records /\ exit' = exit /\ pc' = "done")]_vars
    /\ []((exit = "request_failed" /\ pc = "done")
            => /\ full_csv.exists /\ involving_csv.exists
               /\ full_csv.rows = records
               /\ involving_csv.rows = EdgesInvolving(records, WALLET))

\* the second request failed after a page that gave edges, some not involving
\* the wallet, and both files are written
Wit_C4 ==
    /\ exit = "request_failed" /\ pc = "done"
    /\ requests = 2 /\ pages_done = 1
    /\ Len(records) = 2
    /\ full_csv.exists /\ full_csv.rows = records
    /\ involving_csv.exists /\ Len(involving_csv.rows) = 1

----------------------------------------------------------------------------
\* C5 as claimed: an entry that is no dict is skipped on its own wherever it
\* stands in the page, the last position included: once it is passed, no
\* exception has left the fetch loop.
CE_C5_NonDictSkippedAnywhere ==
    \A k \in 1..Len(data) : (~IsDict(data[k]) /\ k < idx) => pc /= "raised"

----------------------------------------------------------------------------
\* C10: the filtered dataset trace_wallet writes for WALLET holds exactly the
\* edges of the full dataset whose sender or recipient is WALLET, in the same
\* order, and the filter applied to the filtered dataset returns it unchanged.
Thm_C10_ProjectionExactAndIdempotent ==
    pc = "done"
    => /\ full_csv.rows = records
       /\ involving_csv.rows = EdgesInvolving(full_csv.rows, WALLET)
       /\ LET txs_filtered == [columns |-> involving_csv.columns, rows |-> involving_csv.rows]
          IN Filtered(txs_filtered, WALLET) = txs_filtered

\* a run saved three edges: one from the wallet, one to it, one between others
Wit_C10 ==
    /\ pc = "done"
    /\ Len(full_csv.rows) = 3
    /\ Len(involving_csv.rows) = 2
    /\ \E e \in Rows(full_csv) : e.sender = WALLET /\ e.recipient /= WALLET
    /\ \E e \in Rows(full_csv) : e.sender /= WALLET /\ e.recipient = WALLET
    /\ \E e \in Rows(full_csv) : e.sender /= WALLET /\ e.recipient /= WALLET


----------------------------------------------------------------------------
\* C11 as claimed: after every trace_wallet run, a run whose walk yields no
\* edge included, both written files carry the columns tx_id, timestamp,
\* sender, recipient, amount_kas.
CE_C11_StableSchema ==
    pc = "done"
    => (full_csv.columns = EDGE_COLUMNS /\ involving_csv.columns = EDGE_COLUMNS)

----------------------------------------------------------------------------
\* C12 as claimed: for any sequence of responses the fetch loop issues at
\* most max_pages requests and then terminates by returning the dataset
\* accumulated so far.
CE_C12_BoundedThenReturns ==
    /\ requests <= max_pages
    /\ (pc \notin {"loop", "page"} => pc \in {"returned", "done"})

----------------------------------------------------------------------------
\* the edges emitted for the o-th output of a transaction of s senders
EdgesOfOutputAt(edges, s, o) == SubSeq(edges, (o - 1) * s + 1, o * s)

\* C13: for every transaction whose inputs total a nonzero amount, the
\* weights contribution/total_input over the aggregated sources sum to 1, and
\* for each single output the edges emitted for it sum to its amount / 1e8.
Thm_C13_WeightsSumToOne ==
    \A k \in 1..Len(data) :
        (Passed(k) /\ IsDict(data[k]) /\ RawInputTotal(data[k]) /= 0)
        => LET tx == data[k]
               summary == InputSummary(tx.inputs)
               s == Cardinality(SourceAddresses(tx))
               edges == EdgesOfTxId(records, tx.transaction_id)
           IN /\ RatEq(RatSum([j \in 1..Len(summary) |->
                                Weight(summary[j].contribution, TotalInput(summary))]),
                       Rat(1, 1))
              /\ Len(edges) = s * Len(tx.outputs)
              /\ \A o \in 1..Len(tx.outputs) :
                    RatEq(RatSum(AmountsOf(EdgesOfOutputAt(edges, s, o))),
                          Kas(RawOutputAmount(tx.outputs[o])))

\* two funded senders and two paid outputs: each output's two edges are halves
Wit_C13 ==
    /\ Passed(1)
    /\ Cardinality(SourceAddresses(data[1])) = 2
    /\ \A i \in 1..2 : RawInputAmount(data[1].inputs[i]) = 1
    /\ Len(data[1].outputs) = 2
    /\ \A o \in 1..2 : RawOutputAmount(data[1].outputs[o]) = 1
    /\ \A e \in 1..4 : RatEq(EdgesOfTxId(records, 1)[e].amount_kas, Rat(1, 2 * SOMPI_PER_KAS))

----------------------------------------------------------------------------
\* the cursor the code is to leave after the page: the block_time of the last
\* entry, the old cursor when that entry has none
CursorAfter(page, cursor) ==
    IF "block_time" \in DOMAIN page[Len(page)] THEN page[Len(page)].block_time ELSE cursor

\* C14: the cursor changes only when a page has been processed, to the
\* block_time of the last entry of that page, and keeps its value when that
\* entry has no block_time; nothing changes it between the cursor advance and
\* the next request, which so carries the value just set (the same `before`
\* as the request before it when the entry had no block_time).
Thm_C14_CursorIsLastBlockTime ==
    [][before' = IF pc = "page" /\ pc' = "loop" THEN CursorAfter(data, before) ELSE before]_vars

\* two pages processed: the first moved the cursor to its last block_time,
\* the second ended on an entry without block_time and left it there
Wit_C14 ==
    /\ pc = "loop"
    /\ pages_done = 2
    /\ Len(data) = 2
    /\ "block_time" \in DOMAIN data[1] /\ data[1].block_time /= before
    /\ "block_time" \notin DOMAIN data[2]
    /\ before = CUTOFF_DATE

----------------------------------------------------------------------------
\* the number of edges a passed entry is to have given
EdgeCount(entry) ==
    IF IsDict(entry) /\ RawInputTotal(entry) /= 0
    THEN Cardinality(SourceAddresses(entry)) * Len(entry.outputs)
    ELSE 0

\* C17: every transaction whose inputs total a nonzero amount gives exactly
\* (distinct source addresses) x (outputs) edges: inputs of one address
\* collapse into one sender, and each (source, output) pair has exactly one
\* edge, which carries the transaction's tx_id and timestamp.
Thm_C17_SourcesTimesOutputs ==
    /\ pc = "page" => Len(records) = SumSeq([k \in 1..(idx - 1) |-> EdgeCount(data[k])])
    /\ \A k \in 1..Len(data) :
        (Passed(k) /\ IsDict(data[k]) /\ RawInputTotal(data[k]) /= 0)
        => LET tx == data[k]
               s == Cardinality(SourceAddresses(tx))
               edges == EdgesOfTxId(records, tx.transaction_id)
           IN /\ Len(edges) = s * Len(tx.outputs)
              /\ \A e \in 1..Len(edges) : edges[e].timestamp.instant = tx.block_time
              /\ \A o \in 1..Len(tx.outputs) : \A a \in SourceAddresses(tx) :
                    Cardinality({e \in ((o - 1) * s + 1)..(o * s) :
                        /\ edges[e].sender = a
                        /\ edges[e].recipient = tx.outputs[o].script_public_key_address}) = 1

\* two inputs of one address and two outputs: two edges, not four
Wit_C17 ==
    /\ Passed(1)
    /\ Len(data[1].inputs) = 2
    /\ Cardinality(SourceAddresses(data[1])) = 1
    /\ RawInputTotal(data[1]) = 2
    /\ Len(data[1].outputs) = 2
    /\ idx = 2 /\ Len(records) = 2

----------------------------------------------------------------------------
\* C18: when the walk yields no edge, the projection step of trace_wallet
\* gives an empty filtered dataset and raises nothing: the run goes on and
\* both files are written.
Thm_C18_EmptyDatasetSaved ==
    [][(pc = "returned" /\ records = <<>>)
        => /\ pc' = "done"
           /\ full_csv'.exists /\ full_csv'.rows = <<>>
           /\ involving_csv'.exists /\ involving_csv'.rows = <<>>]_vars

\* a walk over a page without a fundable transaction ended at an empty page
\* and saved two files without rows
Wit_C18 ==
    /\ pc = "done" /\ exit = "no_more"
    /\ pages_done = 1
    /\ records = <<>>
    /\ full_csv.exists /\ involving_csv.exists
    /\ involving_csv.rows = <<>>


----------------------------------------------------------------------------
\* C15 as claimed: on every timestamp format_timestamp makes from a block
\* time, is_before_cutoff is true exactly when the instant is earlier than
\* CUTOFF_DATE; on a string that is no timestamp it is false.
CE_C15_CutoffJudgedByInstant ==
    /\ is_before_cutoff(Unparsable) = FALSE
    /\ \A k \in 1..Len(data) :
        (k < idx /\ IsDict(data[k]))
        => (is_before_cutoff(TxTimestamp(data[k])) <=> EarlierThanCutoff(TxTimestamp(data[k])))

----------------------------------------------------------------------------
----------------------------------------------------------------------------
\* C20 as claimed: against the API that pages strictly older than `before`,
\* when the walk has ended every transaction of the history has been through
\* the attribution step exactly once: its edges are among the records once,
\* and so at no moment more than once.
CE_C20_EveryTxExactlyOnce ==
    /\ \A i \in 1..Len(history) :
            Len(EdgesOfTxId(records, i)) <= EdgeCount(history[i])
    /\ pc \in {"returned", "done"}
        => \A i \in 1..Len(history) :
            Len(EdgesOfTxId(records, i)) = EdgeCount(history[i])


----------------------------------------------------------------------------
\* C19 as claimed: with the files trace_wallet wrote for WALLET in the
\* searched directory, among files of other addresses, find_involving_csv
\* and find_participants_csv return a file of WALLET and raise nothing.
CE_C19_WalletFilePreferred ==
    (pc = "done" /\ found /= NotSearched)
    => /\ found.raised = ""
       /\ found.name \in {FileName(WALLET, found.suffix), Chars(WALLET) \o found.suffix}


----------------------------------------------------------------------------
\* C21 as claimed: against the API that returns only transactions strictly
\* older than `before`, every cursor advance leaves a cursor strictly below
\* the one the request before it carried, and no transaction's edges are
\* among the records more than once.
CE_C21_CursorStrictlyDecreases ==
    /\ [][(pc = "page" /\ pc' = "loop") => before' < before]_vars
    /\ [](\A i \in 1..Len(history) :
            Len(EdgesOfTxId(records, i)) <= EdgeCount(history[i]))


----------------------------------------------------------------------------
\* two datasets hold the same edges with the same amounts in the same order
SameDataset(a, b) ==
    /\ Len(a) = Len(b)
    /\ \A e \in 1..Len(a) :
        /\ a[e].tx_id = b[e].tx_id
        /\ a[e].timestamp = b[e].timestamp
        /\ a[e].sender = b[e].sender
        /\ a[e].recipient = b[e].recipient
        /\ RatEq(a[e].amount_kas, b[e].amount_kas)

\* C22 as claimed: over the entries of a page read so far, none of them
\* judged before-cutoff, the records of fetch_transactions_all_participants
\* are the records fetch_transactions builds from the same entries.
CE_C22_VariantsAgree ==
    (/\ pc \in {"page", "loop"}
     /\ \A k \in 1..(idx - 1) :
            IsDict(data[k]) => ~is_before_cutoff(TxTimestamp(data[k])))
    => SameDataset(records, RecordsFT(SubSeq(data, 1, idx - 1)))


----------------------------------------------------------------------------
\* C23: when the inflow script prints its totals from the two files of one
\* trace_wallet run, its net figure (inflows from others minus outflows to
\* others, from the filtered file) equals the balance it reconstructs from
\* the full file (sum over transactions of inflow minus outflow): the edges
\* from WALLET to itself count on both sides of each delta and cancel.
Thm_C23_NetEqualsReconstructed ==
    report.status = "printed"
    => RatEq(RatSub(report.total_in, report.total_out), report.reconstructed_balance)

\* the totals were printed for a run whose files hold an edge from WALLET to
\* itself, an inflow from a peer, an outflow to a peer and an edge between
\* others that the filtered file leaves out
Wit_C23 ==
    /\ report.status = "printed"
    /\ \E e \in Rows(involving_csv) : e.sender = WALLET /\ e.recipient = WALLET
    /\ \E e \in Rows(involving_csv) : e.sender = PEER /\ e.recipient = WALLET
    /\ \E e \in Rows(involving_csv) : e.sender = WALLET /\ e.recipient = PEER
    /\ \E e \in Rows(full_csv) : e \notin Rows(involving_csv)

====
